---- MODULE Spec2Model ----
(***************************************************************************)
(* Model of the statsd client of src/statsd.go: one StatsdClient holding   *)
(* a net.Conn, its Open/Close life cycle, the counter, gauge and timing    *)
(* helpers, UpdateStats and Send.                                          *)
(*                                                                         *)
(* Go strings are sequences of one-character strings, so that the          *)
(* formatting calls (fmt.Sprintf, fmt.Fprintf) are computed character by   *)
(* character.  A float32 (a sample rate, a value of rand.Float32()) is a    *)
(* fraction <<numerator, denominator>> with a power of two below, which    *)
(* float32 holds exactly; the values of Float32() lie in [0,1), on,        *)
(* between and below the rates.                                            *)
(***************************************************************************)
EXTENDS Integers, Sequences, FiniteSets, TLC

VARIABLES conn, socks, float32OfNow, lastCall, logged, crashed, seen

vars == <<conn, socks, float32OfNow, lastCall, logged, crashed, seen>>

(* ------------------------------ bounds --------------------------------- *)

\* Sockets net.Dial may hand out during one run.
MaxSocks == 2
\* Entries of a mapping handed to Send, names of a list handed to UpdateStats.
MaxEntries == 2

(* ------------------------------ strings -------------------------------- *)

\* The digits '0' .. '9', indexed from 1.
Digits == <<"0", "1", "2", "3", "4", "5", "6", "7", "8", "9">>

IsDigit(c) == \E i \in 1..Len(Digits) : Digits[i] = c

RECURSIVE NatToStr(_)
\* The decimal digits of a natural number, as strconv writes them for %d.
NatToStr(n) == IF n < 10 THEN <<Digits[n + 1]>>
               ELSE NatToStr(n \div 10) \o <<Digits[(n % 10) + 1]>>

\* fmt's %d of an int: a minus sign for negatives, then the digits.
FmtD(n) == IF n < 0 THEN <<"-">> \o NatToStr(-n) ELSE NatToStr(n)

RECURSIVE PadLeft(_, _)
\* s with zeros in front, up to width w.
PadLeft(s, w) == IF Len(s) >= w THEN s ELSE PadLeft(<<"0">> \o s, w)

\* Digits fmt's %f prints after the point when no precision is given.
FPrec == 6

RECURSIVE Pow10(_)
Pow10(k) == IF k = 0 THEN 1 ELSE 10 * Pow10(k - 1)

\* fmt's %f of the float32 r[1] / r[2]: sign, integer part, point and FPrec
\* digits, the value rounded to the nearest.
FmtF(r) ==
  LET a      == IF r[1] < 0 THEN -r[1] ELSE r[1]
      scaled == (2 * a * Pow10(FPrec) + r[2]) \div (2 * r[2])
      ip     == scaled \div Pow10(FPrec)
      fp     == scaled % Pow10(FPrec)
  IN  (IF r[1] < 0 THEN <<"-">> ELSE <<>>)
      \o NatToStr(ip) \o <<".">> \o PadLeft(NatToStr(fp), FPrec)

\* The flag characters fmt's verb parser skips after a '%'.
IsFlag(c) == c \in {"#", "0", "+", "-", " "}

RECURSIVE SkipFlags(_, _)
SkipFlags(f, i) == IF i <= Len(f) /\ IsFlag(f[i]) THEN SkipFlags(f, i + 1) ELSE i

RECURSIVE SkipNum(_, _)
\* parsenum: the index after the run of digits starting at i.
SkipNum(f, i) == IF i <= Len(f) /\ IsDigit(f[i]) THEN SkipNum(f, i + 1) ELSE i

\* The index of the verb of the directive whose '%' is at i - 1: after the
\* flags, the width and the precision.  (No input of the model holds '*' or
\* '[', the width-from-argument and argument-index forms.)
VerbAt(f, i) ==
  LET w == SkipNum(f, SkipFlags(f, i))
  IN  IF w <= Len(f) /\ f[w] = "." THEN SkipNum(f, w + 1) ELSE w

NoVerbString == <<"%", "!", "(", "N", "O", "V", "E", "R", "B", ")">>
MissingString == <<"(", "M", "I", "S", "S", "I", "N", "G", ")">>

RECURSIVE DoPrintf(_, _)
\* fmt's doPrintf on format f from index i with NO operands: plain
\* characters are copied, "%%" gives "%", a directive at the end of the
\* format gives "%!(NOVERB)" and any other directive "%!<verb>(MISSING)".
DoPrintf(f, i) ==
  IF i > Len(f) THEN <<>>
  ELSE IF f[i] # "%" THEN <<f[i]>> \o DoPrintf(f, i + 1)
  ELSE LET v == VerbAt(f, i + 1)
       IN  IF v > Len(f) THEN NoVerbString
           ELSE IF f[v] = "%" THEN <<"%">> \o DoPrintf(f, v + 1)
           ELSE <<"%", "!", f[v]>> \o MissingString \o DoPrintf(f, v + 1)

(* ------------------------------ inputs --------------------------------- *)

\* Metric names the callers pass: a plain one, and one holding a '%'.
Names == { <<"x">>, <<"x", "%">> }

\* Integers the callers pass as delta, value or time.
Vals == {-7, 42}

\* Pre-formatted value strings a caller of Send passes.
RawValues == { <<"1", "|", "c">>, <<"%", "%", "|", "g">> }

\* The metric type a direct caller of UpdateStats passes (the helpers that go
\* through UpdateStats pass "c" and "g").
Metrics == { <<"m", "s">> }

\* Sample rates the callers pass: zero, one inside (0,1), one, one above one.
Rates == { <<0, 1>>, <<1, 2>>, <<1, 1>>, <<3, 2>> }

\* The float32 literal 1 the unsampled helpers pass.
Rate1 == <<1, 1>>

\* Values rand.Float32() may return: all in [0,1), zero among them.
Draws == { <<0, 1>>, <<1, 4>>, <<1, 2>>, <<3, 4>> }

\* sampleRate < 1
Lt1(rate) == rate[1] < rate[2]

\* rNum <= sampleRate
DrawLeRate(d, rate) == d[1] * rate[2] <= rate[1] * d[2]

Range(s) == { s[i] : i \in DOMAIN s }

\* A Go map with no entry.
EmptyMap == [k \in {} |-> <<>>]

\* The mappings with at most MaxEntries entries a caller may hand to Send.
Mappings ==
  UNION { [S -> RawValues] :
          S \in { T \in SUBSET Names : Cardinality(T) <= MaxEntries } }

\* The name lists with at most MaxEntries names (repeats allowed) a caller
\* may hand to UpdateStats.
NameLists == UNION { [1..n -> Names] : n \in 0..MaxEntries }

(* ------------------------------- state --------------------------------- *)

\* client.conn when net.Dial failed: the nil net.Conn.
NilConn == 0

IsOpen(c) == c # NilConn /\ socks[c] = "open"
IsClosed(c) == c # NilConn /\ socks[c] = "closed"

\* The record of a call that formats and sends nothing.
LifeCall(op, ret) ==
  [op |-> op, stat |-> <<>>, val |-> 0, rate |-> Rate1, data |-> EmptyMap,
   draws |-> {}, attempts |-> EmptyMap, returned |-> ret]

MetricOps == {"Timing", "TimingWithSampleRate", "Increment",
              "IncrementWithSampling", "IncrementByValue", "Decrement",
              "DecrementWithSampling", "Counter", "Gauge",
              "GaugeWithSampling", "UpdateStats", "Send"}

\* New: the client is built and Open is called on it.  net.Dial either fails
\* (the error is logged, conn is nil) or hands out the first socket.
Init ==
  /\ \/ conn = NilConn /\ socks = <<>> /\ logged = 1
     \/ conn = 1 /\ socks = <<"open">> /\ logged = 0
  /\ float32OfNow \in Draws
  /\ lastCall = LifeCall("New", TRUE)
  /\ crashed = FALSE
  /\ seen = {}

(* ----------------------------- life cycle ------------------------------ *)

\* client.conn after Open, given what net.Dial returned.
ConnAfterOpen(dialed) == dialed

\* Open: dial again; the result, nil on failure, overwrites client.conn.
Open ==
  /\ ~crashed
  /\ \E ok \in BOOLEAN :
       IF ok
       THEN /\ Len(socks) < MaxSocks
            /\ socks' = Append(socks, "open")
            /\ conn' = ConnAfterOpen(Len(socks) + 1)
            /\ logged' = 0
       ELSE /\ socks' = socks
            /\ conn' = ConnAfterOpen(NilConn)
            /\ logged' = 1
  /\ lastCall' = LifeCall("Open", TRUE)
  /\ UNCHANGED <<float32OfNow, crashed, seen>>

\* A Close that also forgets the handle.
ConnAfterCloseForgets(c) == NilConn

\* client.conn after Close: the field is not touched.
ConnAfterClose(c) == c

\* Close: client.conn.Close().  On the nil net.Conn the method call panics;
\* on a closed socket it returns an error nobody reads.
Close ==
  /\ ~crashed
  /\ IF conn = NilConn
     THEN /\ crashed' = TRUE
          /\ lastCall' = LifeCall("Close", FALSE)
          /\ UNCHANGED <<conn, socks>>
     ELSE /\ socks' = [socks EXCEPT ![conn] = "closed"]
          /\ conn' = ConnAfterClose(conn)
          /\ lastCall' = LifeCall("Close", TRUE)
          /\ UNCHANGED crashed
  /\ logged' = 0
  /\ UNCHANGED <<float32OfNow, seen>>

\* The wall clock reaches another second: a source seeded with it yields
\* some first Float32 of its own.
Tick ==
  /\ ~crashed
  /\ float32OfNow' \in Draws
  /\ seen' = {}
  /\ UNCHANGED <<conn, socks, lastCall, logged, crashed>>

(* -------------------------------- Send --------------------------------- *)

\* A source shared by all calls, each call taking its next value.
SharedSourceFloat32 == Draws

\* The values rand.New(rand.NewSource(time.Now().Unix())).Float32() may give:
\* the first value of a source seeded with the second the clock shows.
SeededFloat32 == {float32OfNow}

\* The entries Send goes on to write, given the draw d (read only when
\* sampleRate < 1).
SampledData(data, rate, d) ==
  IF Lt1(rate)
  THEN IF DrawLeRate(d, rate)
       THEN [k \in DOMAIN data |-> data[k] \o <<"|", "@">> \o FmtF(rate)]
       ELSE EmptyMap
  ELSE data

\* update_string := fmt.Sprintf("%s:%s", k, v)
UpdateString(k, v) == k \o <<":">> \o v

\* The bytes fmt.Fprintf(client.conn, update_string) hands to conn.Write:
\* update_string is the FORMAT of the call, which has no operand.
Payload(k, v) == DoPrintf(UpdateString(k, v), 1)

\* What the writes of one loop over the keys S may return: an open UDP
\* socket takes a datagram or reports an error, a closed one always reports
\* an error.
WriteResults(c, S) ==
  IF IsOpen(c) THEN [S -> {"ok", "err"}] ELSE [S -> {"err"}]

\* A loop that returns at its first failed write: the writes that succeed,
\* and one failed write if there is any.
AttemptsUntilError(sd, res) ==
  LET bad  == { k \in DOMAIN sd : res[k] = "err" }
      kept == { k \in DOMAIN sd : res[k] = "ok" }
                \cup (IF bad = {} THEN {} ELSE {CHOOSE k \in bad : TRUE})
  IN  [k \in kept |-> [payload |-> Payload(k, sd[k]), res |-> res[k]]]

\* The writes of the loop over sampledData on a non-nil conn, by key (a range
\* over a Go map visits every key once, in no defined order): one write per
\* entry, whatever the other writes returned.
Attempts(sd, res) ==
  [k \in DOMAIN sd |-> [payload |-> Payload(k, sd[k]), res |-> res[k]]]

\* The log lines of one loop: one per write that returned an error.
Failures(att) == Cardinality({ k \in DOMAIN att : att[k].res = "err" })

\* Send(data, sampleRate), called as `op` (with the helper's own arguments
\* stat and val kept for the record).  No method runs once a panic has
\* ended the process: every action below starts from ~crashed.
SendBody(op, stat, val, data, rate) ==
  /\ \E d \in (IF Lt1(rate) THEN SeededFloat32 ELSE {Rate1}) :
     LET sd == SampledData(data, rate, d)
         ds == IF Lt1(rate) THEN {d} ELSE {}
     IN
     /\ seen' = IF Lt1(rate)
                THEN seen \cup {[rate |-> rate, draw |-> d,
                                 sent |-> DrawLeRate(d, rate)]}
                ELSE seen
     /\ IF conn = NilConn /\ DOMAIN sd # {}
        THEN \* The first Fprintf of the loop formats its entry, then calls
             \* Write on the nil interface: a nil dereference panic.
             \E first \in DOMAIN sd :
               /\ lastCall' =
                    [op |-> op, stat |-> stat, val |-> val, rate |-> rate,
                     data |-> data, draws |-> ds,
                     attempts |-> [k \in {first} |->
                                     [payload |-> Payload(k, sd[k]),
                                      res |-> "panic"]],
                     returned |-> FALSE]
               /\ logged' = 0
               /\ crashed' = TRUE
        ELSE \E res \in WriteResults(conn, DOMAIN sd) :
               LET att == Attempts(sd, res) IN
               /\ lastCall' =
                    [op |-> op, stat |-> stat, val |-> val, rate |-> rate,
                     data |-> data, draws |-> ds, attempts |-> att,
                     returned |-> TRUE]
               /\ logged' = Failures(att)
               /\ UNCHANGED crashed
  /\ UNCHANGED <<conn, socks, float32OfNow>>

\* statsToSend of UpdateStats: one entry per distinct name of stats.
StatsToSend(stats, delta, metric) ==
  [s \in Range(stats) |-> FmtD(delta) \o <<"|">> \o metric]

UpdateStatsBody(op, stat, val, stats, delta, rate, metric) ==
  SendBody(op, stat, val, StatsToSend(stats, delta, metric), rate)

Send == \E data \in Mappings, rate \in Rates :
  /\ ~crashed
  /\ SendBody("Send", <<>>, 0, data, rate)

UpdateStats == \E stats \in NameLists, delta \in Vals, rate \in Rates,
                  metric \in Metrics :
  /\ ~crashed
  /\ UpdateStatsBody("UpdateStats", <<>>, delta, stats, delta, rate, metric)

(* ------------------------------ helpers -------------------------------- *)

\* updateString := fmt.Sprintf("%d|ms", time)
TimingString(time) == FmtD(time) \o <<"|", "m", "s">>

Timing == \E stat \in Names, time \in Vals :
  /\ ~crashed
  /\ SendBody("Timing", stat, time, [k \in {stat} |-> TimingString(time)],
              Rate1)

TimingWithSampleRate == \E stat \in Names, time \in Vals, rate \in Rates :
  /\ ~crashed
  /\ SendBody("TimingWithSampleRate", stat, time,
              [k \in {stat} |-> TimingString(time)], rate)

Increment == \E stat \in Names :
  /\ ~crashed
  /\ UpdateStatsBody("Increment", stat, 0, <<stat>>, 1, Rate1, <<"c">>)

IncrementWithSampling == \E stat \in Names, rate \in Rates :
  /\ ~crashed
  /\ UpdateStatsBody("IncrementWithSampling", stat, 0, <<stat>>, 1, rate,
                     <<"c">>)

IncrementByValue == \E stat \in Names, v \in Vals :
  /\ ~crashed
  /\ UpdateStatsBody("IncrementByValue", stat, v, <<stat>>, v, Rate1, <<"c">>)

Decrement == \E stat \in Names :
  /\ ~crashed
  /\ UpdateStatsBody("Decrement", stat, 0, <<stat>>, -1, Rate1, <<"c">>)

DecrementWithSampling == \E stat \in Names, rate \in Rates :
  /\ ~crashed
  /\ UpdateStatsBody("DecrementWithSampling", stat, 0, <<stat>>, -1, rate,
                     <<"c">>)

\* Counter passes the literal 1, not its argument value.
Counter == \E stat \in Names, value \in Vals :
  /\ ~crashed
  /\ UpdateStatsBody("Counter", stat, value, <<stat>>, 1, Rate1, <<"c">>)

Gauge == \E stat \in Names, value \in Vals :
  /\ ~crashed
  /\ UpdateStatsBody("Gauge", stat, value, <<stat>>, value, Rate1, <<"g">>)

GaugeWithSampling == \E stat \in Names, value \in Vals, rate \in Rates :
  /\ ~crashed
  /\ UpdateStatsBody("GaugeWithSampling", stat, value, <<stat>>, value, rate,
                     <<"g">>)

\* A client used as its documentation shows: built by New, then any metric
\* calls and Close, while the clock runs.
Next ==
  \/ Close
  \/ Tick
  \/ Send
  \/ UpdateStats
  \/ Timing
  \/ TimingWithSampleRate
  \/ Increment
  \/ IncrementWithSampling
  \/ IncrementByValue
  \/ Decrement
  \/ DecrementWithSampling
  \/ Counter
  \/ Gauge
  \/ GaugeWithSampling

Spec == Init /\ [][Next]_vars

\* A client whose owner also calls Open on it again, between unsampled calls.
NextReopen ==
  \/ Open
  \/ Close
  \/ Timing
  \/ Increment
  \/ IncrementByValue
  \/ Decrement
  \/ Counter
  \/ Gauge

SpecReopen == Init /\ [][NextReopen]_vars

(* ------------------------------- claims ------------------------------- *)

\* The last operation was a metric call (Send, UpdateStats or a helper).
IsMetric == lastCall.op \in MetricOps

\* The writes of the last call that reached the socket layer: every attempt
\* but one that panicked inside Fprintf's call of Write.
Written == { k \in DOMAIN lastCall.attempts : lastCall.attempts[k].res # "panic" }

\* The last call was sampled in: its rate is at least 1, or its draw is at
\* most its rate.
Passed == \/ ~Lt1(lastCall.rate)
          \/ \E d \in lastCall.draws : DrawLeRate(d, lastCall.rate)

EndsWith(s, t) ==
  Len(s) >= Len(t) /\ SubSeq(s, Len(s) - Len(t) + 1, Len(s)) = t

Contains(s, t) ==
  \E i \in 1..(Len(s) - Len(t) + 1) : SubSeq(s, i, i + Len(t) - 1) = t

\* The text "|@<rate>" of the sampled rates, as %f renders them.
SuffixText(r) ==
  CASE r = <<0, 1>> -> <<"|", "@", "0", ".", "0", "0", "0", "0", "0", "0">>
    [] r = <<1, 2>> -> <<"|", "@", "0", ".", "5", "0", "0", "0", "0", "0">>

\* The decimal text of the integers the helpers are called with.
DecText(v) ==
  CASE v = 1 -> <<"1">>
    [] v = -1 -> <<"-", "1">>
    [] v = -7 -> <<"-", "7">>
    [] v = 42 -> <<"4", "2">>

\* C1: with a sample rate of at least 1 on an open socket, Send makes no
\* draw and exactly one write per entry of the mapping, each carrying
\* "<name>:<value>" with no "|@" suffix.
CX_C1 ==
  (IsMetric /\ IsOpen(conn) /\ ~Lt1(lastCall.rate)) =>
    /\ lastCall.draws = {}
    /\ lastCall.returned
    /\ Written = DOMAIN lastCall.data
    /\ \A k \in Written :
         /\ lastCall.attempts[k].payload = k \o <<":">> \o lastCall.data[k]
         /\ ~Contains(lastCall.attempts[k].payload, <<"|", "@">>)

\* C2: with a sample rate below 1, Send makes exactly one draw d; if
\* d <= rate every entry is written, its payload ending in "|@<rate>";
\* otherwise no entry is written.  A written payload carries the suffix
\* exactly when the call was sampled with d <= rate.
CX_C2 ==
  IsMetric =>
    /\ Lt1(lastCall.rate) =>
         /\ Cardinality(lastCall.draws) = 1
         /\ IF Passed
            THEN /\ Written = DOMAIN lastCall.data
                 /\ \A k \in Written :
                      EndsWith(lastCall.attempts[k].payload,
                               SuffixText(lastCall.rate))
            ELSE lastCall.attempts = EmptyMap
    /\ \A k \in DOMAIN lastCall.attempts :
         Contains(lastCall.attempts[k].payload, <<"|", "@">>)
           <=> (Lt1(lastCall.rate) /\ Passed)

\* C3: with sample rate 0, Send makes no socket write, whatever the draw.
CX_C3 ==
  (IsMetric /\ lastCall.rate = <<0, 1>>) => Written = {}

\* The "<delta>|<type>" the claim gives for each unsampled helper.
HelperText(op, val) ==
  CASE op = "Increment"        -> DecText(1) \o <<"|", "c">>
    [] op = "Decrement"        -> DecText(-1) \o <<"|", "c">>
    [] op = "IncrementByValue" -> DecText(val) \o <<"|", "c">>
    [] op = "Counter"          -> DecText(1) \o <<"|", "c">>
    [] op = "Gauge"            -> DecText(val) \o <<"|", "g">>
    [] op = "Timing"           -> DecText(val) \o <<"|", "m", "s">>

UnsampledHelpers == {"Increment", "Decrement", "IncrementByValue", "Counter",
                     "Gauge", "Timing"}

\* C4: every unsampled helper called on an open socket makes exactly one
\* write, whose payload is "<name>:<delta>|<type>" (Counter's delta is 1
\* whatever its value argument).
CX_C4 ==
  (lastCall.op \in UnsampledHelpers /\ IsOpen(conn)) =>
    /\ Written = {lastCall.stat}
    /\ \A k \in Written :
         lastCall.attempts[k].payload =
           lastCall.stat \o <<":">> \o HelperText(lastCall.op, lastCall.val)

\* C5: on a client whose socket failed to open, every metric call with a
\* non-empty mapping returns normally and does not crash the process.
CX_C5 ==
  (IsMetric /\ conn = NilConn /\ DOMAIN lastCall.data # {}) =>
    (lastCall.returned /\ ~crashed)

\* C6: on a socket that was opened (open with failing writes, or closed), a
\* metric call that passes sampling attempts one write per entry of the
\* mapping, logs one line per failed write, and returns normally; on a
\* closed socket every one of these writes fails.
TH_C6 ==
  (IsMetric /\ conn # NilConn) =>
    /\ lastCall.returned
    /\ ~crashed
    /\ Passed => Written = DOMAIN lastCall.data
    /\ logged = Cardinality({ k \in Written : lastCall.attempts[k].res = "err" })
    /\ IsClosed(conn) =>
         \A k \in Written : lastCall.attempts[k].res = "err"

\* A two-entry batch sent after Close: both writes attempted, both failed
\* and logged, and the call returned.
W_C6 ==
  /\ IsMetric
  /\ IsClosed(conn)
  /\ Cardinality(DOMAIN lastCall.data) = 2
  /\ Cardinality(Written) = 2
  /\ logged = 2
  /\ lastCall.returned

\* C7 as stated: the socket field is nil or an open handle, never a handle
\* that has been closed.
CX_C7 == conn = NilConn \/ IsOpen(conn)

\* C7 amended: Close closes the socket and leaves the handle in the field;
\* the handle in the field becomes a closed one by Close alone; a metric
\* call neither replaces the field nor changes any socket.
TH_C7 ==
  [][ /\ (lastCall'.op = "Close" /\ lastCall'.returned) =>
           (conn' = conn /\ socks'[conn'] = "closed")
      /\ (conn' # NilConn /\ socks'[conn'] = "closed" /\ ~IsClosed(conn)) =>
           lastCall'.op = "Close"
      /\ lastCall'.op \in MetricOps => (conn' = conn /\ socks' = socks)
    ]_vars

\* A metric call made on the closed handle Close left in the field.
W_C7 == IsClosed(conn) /\ lastCall.op \in UnsampledHelpers /\ lastCall.returned

\* C8: the bytes written for an entry are exactly the name, a colon and the
\* value string (with its "|@<rate>" suffix when the call was sampled).
CX_C8 ==
  IsMetric =>
    \A k \in Written :
      lastCall.attempts[k].payload =
        k \o <<":">> \o lastCall.data[k]
          \o (IF Lt1(lastCall.rate) THEN SuffixText(lastCall.rate) ELSE <<>>)

\* r1 <= r2, for two rates.
RateLe(r1, r2) == r1[1] * r2[2] <= r2[1] * r1[2]

\* C9: the sampled calls made while the clock shows one second all obtain
\* the same draw; so two of them with equal rates are both sent or both
\* dropped, and if the one with the lower rate is sent so is the other.
TH_C9 ==
  \A a \in seen : \A b \in seen :
    /\ a.draw = b.draw
    /\ a.rate = b.rate => a.sent = b.sent
    /\ (RateLe(a.rate, b.rate) /\ a.sent) => b.sent

\* Two sampled calls within one second, the one at the lower rate dropped
\* and the one at the higher rate sent.
W_C9 ==
  \E a \in seen : \E b \in seen :
    /\ RateLe(a.rate, b.rate)
    /\ a.rate # b.rate
    /\ ~a.sent
    /\ b.sent

\* C10: every socket that was opened is the client's current one or closed.
CX_C10 ==
  \A i \in DOMAIN socks : socks[i] = "closed" \/ conn = i

====
